---- MODULE Spec2Model ----
(***************************************************************************)
(* A model of crates/ra_db/src/input.rs: the crate graph (CrateGraph), its *)
(* construction operations add_crate_root, add_dep and extend, and the     *)
(* depth-first search dfs_find that add_dep uses to reject cycles.         *)
(*                                                                         *)
(* Two graph values are built side by side: "self", the receiver, and      *)
(* "other", the graph that extend() consumes.  Crate ids are u32 in the    *)
(* source; the model keeps them as naturals, its bounds staying far below  *)
(* 2^32 crates.                                                            *)
(***************************************************************************)
EXTENDS Integers, Sequences, FiniteSets, TLC

\* Bounds of the model: crates held by the two graphs together, and
\* dependency edges held by the two graphs together.
MaxCrates == 3
MaxDeps == 2

VARIABLES
    arena,      \* arena[g]: CrateGraph.arena of graph g, a map CrateId -> CrateData
    returned,   \* returned[g]: the ids add_crate_root has returned on graph g
    last        \* the last call: operation, receiver, arguments, result

vars == <<arena, returned, last>>

GraphNames == {"self", "other"}

\* ---------------------------------------------------------------- values

\* Option<T>: None is <<>>, Some(v) is <<v>>.
None == <<>>
Some(v) == <<v>>

\* An empty FxHashMap.
EmptyMap == [k \in {} |-> 0]

Edition2018 == "Edition2018"
Edition2015 == "Edition2015"

\* CrateName values handed to add_dep: dash-free texts.
DepNames == {<<"x">>, <<"y">>}

\* Argument tuples of add_crate_root: a plain crate, and one with every
\* field set (two macros, so that their order shows).
CrateInputs ==
    { [file_id |-> 1, edition |-> Edition2018, display_name |-> None,
       cfg_options |-> {}, env |-> EmptyMap, extern_source |-> EmptyMap,
       proc_macro |-> <<>>],
      [file_id |-> 2, edition |-> Edition2015, display_name |-> Some(<<"a">>),
       cfg_options |-> {"test"}, env |-> [k \in {"OUT_DIR"} |-> "out"],
       extern_source |-> [k \in {"/out"} |-> 7],
       proc_macro |-> << <<"m", 1>>, <<"n", 2>> >>] }

NoInput == [file_id |-> 0, edition |-> Edition2018, display_name |-> None,
            cfg_options |-> {}, env |-> EmptyMap, extern_source |-> EmptyMap,
            proc_macro |-> <<>>]

\* CrateGraph::default()
CrateGraph_default == EmptyMap

\* ------------------------------------------------------------ operations

\* self.arena.len()
len(a) == Cardinality(DOMAIN a)

\* The ids a caller may pass to a graph: those it holds and one it does not.
CrateIds(a) == DOMAIN a \cup {len(a)}

\* HashMap::insert: the map with key k set to v (a present key is overwritten).
insert(a, k, v) == [i \in DOMAIN a \cup {k} |-> IF i = k THEN v ELSE a[i]]

\* proc_macro.into_iter().map(|(name, it)| ProcMacro { name, expander: it })
ProcMacros(pm) == [i \in 1 .. Len(pm) |-> [name |-> pm[i][1], expander |-> pm[i][2]]]

\* add_crate_root as it would be with the display name left out of the record.
add_crate_root_no_name(a, in) ==
    LET data == [root_file_id |-> in.file_id,
                 edition |-> in.edition,
                 display_name |-> None,
                 cfg_options |-> in.cfg_options,
                 env |-> in.env,
                 extern_source |-> in.extern_source,
                 proc_macro |-> ProcMacros(in.proc_macro),
                 dependencies |-> <<>>]
        crate_id == len(a)
        prev_is_none == crate_id \notin DOMAIN a
    IN  [arena |-> insert(a, crate_id, data),
         res |-> IF prev_is_none THEN "Ok" ELSE "Panic",
         id |-> crate_id]

\* add_crate_root as it would be if a crate with the same root file were
\* taken to be the same crate and stored under its id again.
add_crate_root_one_per_file(a, in) ==
    LET data == [root_file_id |-> in.file_id,
                 edition |-> in.edition,
                 display_name |-> in.display_name,
                 cfg_options |-> in.cfg_options,
                 env |-> in.env,
                 extern_source |-> in.extern_source,
                 proc_macro |-> ProcMacros(in.proc_macro),
                 dependencies |-> <<>>]
        same == {i \in DOMAIN a : a[i].root_file_id = in.file_id}
        crate_id == IF same = {} THEN len(a) ELSE CHOOSE i \in same : TRUE
    IN  [arena |-> insert(a, crate_id, data),
         res |-> "Ok",
         id |-> crate_id]

\* add_crate_root as it would be if the ids were counted from one.
add_crate_root_from_one(a, in) ==
    LET data == [root_file_id |-> in.file_id,
                 edition |-> in.edition,
                 display_name |-> in.display_name,
                 cfg_options |-> in.cfg_options,
                 env |-> in.env,
                 extern_source |-> in.extern_source,
                 proc_macro |-> ProcMacros(in.proc_macro),
                 dependencies |-> <<>>]
        crate_id == len(a) + 1
        prev_is_none == crate_id \notin DOMAIN a
    IN  [arena |-> insert(a, crate_id, data),
         res |-> IF prev_is_none THEN "Ok" ELSE "Panic",
         id |-> crate_id]

\* CrateGraph::add_crate_root: the arena after the call and what the call
\* gives: the new id, or a panic when the assertion prev.is_none() fails.
add_crate_root(a, in) ==
    LET data == [root_file_id |-> in.file_id,
                 edition |-> in.edition,
                 display_name |-> in.display_name,
                 cfg_options |-> in.cfg_options,
                 env |-> in.env,
                 extern_source |-> in.extern_source,
                 proc_macro |-> ProcMacros(in.proc_macro),
                 dependencies |-> <<>>]
        crate_id == len(a)
        prev_is_none == crate_id \notin DOMAIN a
    IN  [arena |-> insert(a, crate_id, data),
         res |-> IF prev_is_none THEN "Ok" ELSE "Panic",
         id |-> crate_id]

\* CrateGraph::dfs_find with its loop over self[from].dependencies: found is
\* the value returned, visited the set as the call leaves it, and panic says
\* that self[from] indexed an id that is not in the arena.
RECURSIVE dfs_find(_, _, _, _), dfs_loop(_, _, _, _, _)

\* dfs_find as it would be without the recursive call: only the direct
\* dependencies of `from` are compared with the target.
dfs_find_shallow(a, target, from, visited) ==
    IF from \in visited
    THEN [found |-> FALSE, panic |-> FALSE, visited |-> visited]
    ELSE IF from \notin DOMAIN a
    THEN [found |-> FALSE, panic |-> TRUE, visited |-> visited \cup {from}]
    ELSE [found |-> \E k \in 1 .. Len(a[from].dependencies) :
                        a[from].dependencies[k].crate_id = target,
          panic |-> FALSE, visited |-> visited \cup {from}]

dfs_find(a, target, from, visited) ==
    IF from \in visited
    THEN [found |-> FALSE, panic |-> FALSE, visited |-> visited]
    ELSE IF from \notin DOMAIN a
    THEN [found |-> FALSE, panic |-> TRUE, visited |-> visited \cup {from}]
    ELSE dfs_loop(a, target, a[from].dependencies, 1, visited \cup {from})

\* The loop of dfs_find as it would be if it gave up after its first
\* dependency instead of going on to the next.
dfs_loop_first_only(a, target, deps, i, visited) ==
    IF i > Len(deps)
    THEN [found |-> FALSE, panic |-> FALSE, visited |-> visited]
    ELSE IF deps[i].crate_id = target
    THEN [found |-> TRUE, panic |-> FALSE, visited |-> visited]
    ELSE dfs_find(a, target, deps[i].crate_id, visited)

dfs_loop(a, target, deps, i, visited) ==
    IF i > Len(deps)
    THEN [found |-> FALSE, panic |-> FALSE, visited |-> visited]
    ELSE IF deps[i].crate_id = target
    THEN [found |-> TRUE, panic |-> FALSE, visited |-> visited]
    ELSE LET r == dfs_find(a, target, deps[i].crate_id, visited)
         IN  IF r.found \/ r.panic
             THEN r
             ELSE dfs_loop(a, target, deps, i + 1, r.visited)

\* CrateData::add_dep as it would be with the new edge put first.
CrateData_add_dep_front(data, name, crate_id) ==
    [data EXCEPT !.dependencies = <<[name |-> name, crate_id |-> crate_id]>> \o @]

\* CrateData::add_dep as it would be if the new edge took the place of the
\* list (dependencies = vec![..]).
CrateData_add_dep_replace(data, name, crate_id) ==
    [data EXCEPT !.dependencies = <<[name |-> name, crate_id |-> crate_id]>>]

\* CrateData::add_dep
CrateData_add_dep(data, name, crate_id) ==
    [data EXCEPT !.dependencies = Append(@, [name |-> name, crate_id |-> crate_id])]

\* add_dep as it would be with the search run the wrong way round (from
\* `from`, looking for `to`).
add_dep_swapped(a, from, name, to) ==
    LET r == dfs_find(a, to, from, {})
    IN  IF r.panic THEN [arena |-> a, res |-> "Panic"]
        ELSE IF r.found THEN [arena |-> a, res |-> "Err"]
        ELSE IF from \notin DOMAIN a THEN [arena |-> a, res |-> "Panic"]
        ELSE [arena |-> [a EXCEPT ![from] = CrateData_add_dep(@, name, to)],
              res |-> "Ok"]

\* add_dep as it would be with the edge pushed before the search.
add_dep_push_first(a, from, name, to) ==
    LET b == IF from \in DOMAIN a
             THEN [a EXCEPT ![from] = CrateData_add_dep(@, name, to)]
             ELSE a
        r == dfs_find(a, from, to, {})
    IN  IF r.panic THEN [arena |-> b, res |-> "Panic"]
        ELSE IF r.found THEN [arena |-> b, res |-> "Err"]
        ELSE IF from \notin DOMAIN a THEN [arena |-> b, res |-> "Panic"]
        ELSE [arena |-> b, res |-> "Ok"]

\* add_dep as it would be if a missing `from` were passed over in silence
\* (if let Some(data) = self.arena.get_mut(&from)).
add_dep_skip_missing(a, from, name, to) ==
    LET r == dfs_find(a, from, to, {})
    IN  IF r.panic THEN [arena |-> a, res |-> "Panic"]
        ELSE IF r.found THEN [arena |-> a, res |-> "Err"]
        ELSE IF from \notin DOMAIN a THEN [arena |-> a, res |-> "Ok"]
        ELSE [arena |-> [a EXCEPT ![from] = CrateData_add_dep(@, name, to)],
              res |-> "Ok"]

\* add_dep as it would be if a `to` that is not in the arena were taken for
\* a crate without dependencies (self.arena.get(&to) in place of self[to]).
add_dep_any_target(a, from, name, to) ==
    LET r == IF to \in DOMAIN a THEN dfs_find(a, from, to, {})
             ELSE [found |-> FALSE, panic |-> FALSE, visited |-> {to}]
    IN  IF r.panic THEN [arena |-> a, res |-> "Panic"]
        ELSE IF r.found THEN [arena |-> a, res |-> "Err"]
        ELSE IF from \notin DOMAIN a THEN [arena |-> a, res |-> "Panic"]
        ELSE [arena |-> [a EXCEPT ![from] = CrateData_add_dep(@, name, to)],
              res |-> "Ok"]

\* CrateGraph::add_dep: the arena after the call and its outcome: "Ok",
\* "Err" (CyclicDependenciesError) or "Panic" (indexing or unwrap on an id
\* that is not in the arena).
add_dep(a, from, name, to) ==
    LET r == dfs_find(a, from, to, {})
    IN  IF r.panic THEN [arena |-> a, res |-> "Panic"]
        ELSE IF r.found THEN [arena |-> a, res |-> "Err"]
        ELSE IF from \notin DOMAIN a THEN [arena |-> a, res |-> "Panic"]
        ELSE [arena |-> [a EXCEPT ![from] = CrateData_add_dep(@, name, to)],
              res |-> "Ok"]

\* CrateId::shift as it would be one too far.
shift_one_more(id, amount) == id + amount + 1

\* CrateId::shift
shift(id, amount) == id + amount

\* extend as it would be with the shift taken from the length of `other`.
extend_len_of_other(a, o) ==
    LET start == len(o)
        moved(id) == [o[id] EXCEPT !.dependencies =
                        [k \in 1 .. Len(@) |->
                            [@[k] EXCEPT !.crate_id = shift(@, start)]]]
        new_ids == {shift(id, start) : id \in DOMAIN o}
        old_id(n) == CHOOSE id \in DOMAIN o : shift(id, start) = n
    IN  [arena |-> [n \in DOMAIN a \cup new_ids |->
                        IF n \in new_ids THEN moved(old_id(n)) ELSE a[n]],
         res |-> "Ok",
         id |-> start]

\* extend as it would be with the shift taken from both lengths together.
extend_len_of_both(a, o) ==
    LET start == len(a) + len(o)
        moved(id) == [o[id] EXCEPT !.dependencies =
                        [k \in 1 .. Len(@) |->
                            [@[k] EXCEPT !.crate_id = shift(@, start)]]]
        new_ids == {shift(id, start) : id \in DOMAIN o}
        old_id(n) == CHOOSE id \in DOMAIN o : shift(id, start) = n
    IN  [arena |-> [n \in DOMAIN a \cup new_ids |->
                        IF n \in new_ids THEN moved(old_id(n)) ELSE a[n]],
         res |-> "Ok",
         id |-> start]

\* extend as it would be with the dependency targets left as they were in
\* `other`.
extend_targets_unshifted(a, o) ==
    LET start == len(a)
        new_ids == {shift(id, start) : id \in DOMAIN o}
        old_id(n) == CHOOSE id \in DOMAIN o : shift(id, start) = n
    IN  [arena |-> [n \in DOMAIN a \cup new_ids |->
                        IF n \in new_ids THEN o[old_id(n)] ELSE a[n]],
         res |-> "Ok",
         id |-> start]

\* extend as it would be with the crates of `other` kept under their own ids.
extend_ids_unshifted(a, o) ==
    LET start == len(a)
        moved(id) == [o[id] EXCEPT !.dependencies =
                        [k \in 1 .. Len(@) |->
                            [@[k] EXCEPT !.crate_id = shift(@, start)]]]
    IN  [arena |-> [n \in DOMAIN a \cup DOMAIN o |->
                        IF n \in DOMAIN o THEN moved(n) ELSE a[n]],
         res |-> "Ok",
         id |-> start]

\* extend as it would be if the targets were shifted by the size of `other`.
extend_targets_by_other(a, o) ==
    LET start == len(a)
        moved(id) == [o[id] EXCEPT !.dependencies =
                        [k \in 1 .. Len(@) |->
                            [@[k] EXCEPT !.crate_id = shift(@, len(o))]]]
        new_ids == {shift(id, start) : id \in DOMAIN o}
        old_id(n) == CHOOSE id \in DOMAIN o : shift(id, start) = n
    IN  [arena |-> [n \in DOMAIN a \cup new_ids |->
                        IF n \in new_ids THEN moved(old_id(n)) ELSE a[n]],
         res |-> "Ok",
         id |-> start]

\* CrateGraph::extend: every (id, data) of other goes into the arena under
\* the shifted id, with its dependency targets shifted; HashMap::extend
\* overwrites a key that is already there.
extend(a, o) ==
    LET start == len(a)
        moved(id) == [o[id] EXCEPT !.dependencies =
                        [k \in 1 .. Len(@) |->
                            [@[k] EXCEPT !.crate_id = shift(@, start)]]]
        new_ids == {shift(id, start) : id \in DOMAIN o}
        old_id(n) == CHOOSE id \in DOMAIN o : shift(id, start) = n
    IN  [arena |-> [n \in DOMAIN a \cup new_ids |->
                        IF n \in new_ids THEN moved(old_id(n)) ELSE a[n]],
         res |-> "Ok",
         id |-> start]

\* ------------------------------------------------------------------ state

NumCrates == len(arena["self"]) + len(arena["other"])

RECURSIVE SumDeps(_, _)
SumDeps(a, ids) ==
    IF ids = {} THEN 0
    ELSE LET i == CHOOSE i \in ids : TRUE
         IN  Len(a[i].dependencies) + SumDeps(a, ids \ {i})

NumDeps == SumDeps(arena["self"], DOMAIN arena["self"])
           + SumDeps(arena["other"], DOMAIN arena["other"])

Call(op, g, from, name, to, in, res, id) ==
    [op |-> op, g |-> g, from |-> from, name |-> name, to |-> to,
     input |-> in, res |-> res, id |-> id]

Init ==
    /\ arena = [g \in GraphNames |-> CrateGraph_default]
    /\ returned = [g \in GraphNames |-> {}]
    /\ last = Call("new", "self", 0, <<>>, 0, NoInput, "Ok", 0)

\* A panic (a failed assertion, an index or an unwrap on a missing id) is a
\* fatal fault: the construction ends there.
Running == last.res # "Panic"

AddCrateRoot(g, in) ==
    /\ Running
    /\ NumCrates < MaxCrates
    /\ LET r == add_crate_root(arena[g], in)
       IN  /\ arena' = [arena EXCEPT ![g] = r.arena]
           /\ returned' = [returned EXCEPT ![g] =
                              IF r.res = "Ok" THEN @ \cup {r.id} ELSE @]
           /\ last' = Call("add_crate_root", g, 0, <<>>, 0, in, r.res, r.id)

AddDep(g, from, name, to) ==
    LET r == add_dep(arena[g], from, name, to)
    IN  /\ Running
        /\ r.res = "Ok" => NumDeps < MaxDeps
        /\ arena' = [arena EXCEPT ![g] = r.arena]
        /\ last' = Call("add_dep", g, from, name, to, NoInput, r.res, 0)
        /\ UNCHANGED returned

\* self.extend(other): other is moved into the call; a graph built afterwards
\* to be merged starts again from CrateGraph::default().
Extend ==
    LET r == extend(arena["self"], arena["other"])
    IN  /\ Running
        /\ arena' = [self |-> r.arena, other |-> CrateGraph_default]
        /\ returned' = [returned EXCEPT !["other"] = {}]
        /\ last' = Call("extend", "self", 0, <<>>, 0, NoInput, r.res, r.id)

Next ==
    \/ \E g \in GraphNames, in \in CrateInputs : AddCrateRoot(g, in)
    \/ \E g \in GraphNames, name \in DepNames :
          \E from \in CrateIds(arena[g]), to \in CrateIds(arena[g]) :
             AddDep(g, from, name, to)
    \/ Extend

Spec == Init /\ [][Next]_vars

\* ------------------------------------------------------------------ reads

\* The root files a caller may ask for: those of CrateInputs and one that no
\* crate has.
FileIds == {1, 2, 3}

\* The orders in which self.arena.iter() may yield the keys S: a hash map
\* promises none, so every order is possible.
Orders(S) ==
    {q \in [1 .. Cardinality(S) -> S] :
        \A i \in DOMAIN q, j \in DOMAIN q : q[i] = q[j] => i = j}

\* Iterator::find as it would be if it looked at the first item only.
find_root_first_only(a, order, file_id, i) ==
    IF i > Len(order) THEN None
    ELSE IF a[order[i]].root_file_id = file_id THEN Some(order[i])
    ELSE None

\* self.arena.iter().find(|(_crate_id, data)| data.root_file_id == file_id),
\* scanning from position i of the iteration order.
RECURSIVE find_root(_, _, _, _)
find_root(a, order, file_id, i) ==
    IF i > Len(order) THEN None
    ELSE IF a[order[i]].root_file_id = file_id THEN Some(order[i])
    ELSE find_root(a, order, file_id, i + 1)

\* CrateGraph::crate_id_for_crate_root, under one iteration order.
crate_id_for_crate_root(a, file_id, order) == find_root(a, order, file_id, 1)

\* A read of the receiving graph; it is recorded and changes nothing.
CrateIdForCrateRoot(file_id, order) ==
    LET r == crate_id_for_crate_root(arena["self"], file_id, order)
    IN  /\ Running
        /\ last' = Call("crate_id_for_crate_root", "self", 0, <<>>, 0,
                        [NoInput EXCEPT !.file_id = file_id],
                        IF r = None THEN "None" ELSE "Some",
                        IF r = None THEN 0 ELSE r[1])
        /\ UNCHANGED <<arena, returned>>

NextQuery ==
    \/ Next
    \/ \E file_id \in FileIds, order \in Orders(DOMAIN arena["self"]) :
          CrateIdForCrateRoot(file_id, order)

\* Construction with reads of the receiving graph in between.
SpecQuery == Init /\ [][NextQuery]_vars

\* ------------------------------------------------------------- crate names

\* Texts are sequences of characters: a letter, the hyphen and the
\* underscore, up to MaxTextLen characters long.
MaxTextLen == 4
Chars == {"a", "-", "_"}
Texts == UNION {[1 .. n -> Chars] : n \in 0 .. MaxTextLen}

\* str::contains as it would be if only the first character were looked at.
str_contains_first_only(s, c) == Len(s) > 0 /\ s[1] = c

\* str::contains(char): some position of s holds c.
str_contains(s, c) == \E i \in 1 .. Len(s) : s[i] = c

\* str::replace as it would be if every match were dropped.
RECURSIVE str_replace_dropping(_, _, _)
str_replace_dropping(s, from, to) ==
    IF s = <<>> THEN <<>>
    ELSE (IF Head(s) = from THEN <<>> ELSE <<Head(s)>>)
             \o str_replace_dropping(Tail(s), from, to)

\* str::replace as it would be if only the first match were replaced
\* (str::replacen with a count of 1).
str_replace_first_only(s, from, to) ==
    IF \E i \in 1 .. Len(s) : s[i] = from
    THEN LET i == CHOOSE k \in 1 .. Len(s) :
                      /\ s[k] = from
                      /\ \A j \in 1 .. k - 1 : s[j] # from
         IN  SubSeq(s, 1, i - 1) \o to \o SubSeq(s, i + 1, Len(s))
    ELSE s

\* str::replace(char, &str): a new text, built left to right, in which every
\* match of the character `from` has given way to the text `to`.
RECURSIVE str_replace(_, _, _)
str_replace(s, from, to) ==
    IF s = <<>> THEN <<>>
    ELSE (IF Head(s) = from THEN to ELSE <<Head(s)>>)
             \o str_replace(Tail(s), from, to)

\* CrateName::new: Err(name) if the name contains a dash, else
\* Ok(CrateName(name)).
CrateName_new(name) ==
    IF str_contains(name, "-")
    THEN [res |-> "Err", out |-> name]
    ELSE [res |-> "Ok", out |-> name]

\* CrateName::normalize_dashes: CrateName(name.replace('-', "_")); there is
\* no Result.
normalize_dashes(name) ==
    [res |-> "Ok", out |-> str_replace(name, "-", <<"_">>)]

\* The record of a call on a name: the text the caller started from, the text
\* the call was given, and what came back.
NameCall(op, src, text, r) ==
    [op |-> op, src |-> src, text |-> text, res |-> r.res, out |-> r.out]

CrateNameNew(text) ==
    /\ last' = NameCall("CrateName::new", text, text, CrateName_new(text))
    /\ UNCHANGED <<arena, returned>>

NormalizeDashes(text) ==
    /\ last' = NameCall("normalize_dashes", text, text, normalize_dashes(text))
    /\ UNCHANGED <<arena, returned>>

\* The caller passes the text of the name it got from normalize_dashes to
\* normalize_dashes once more.
NormalizeAgain ==
    /\ last.op = "normalize_dashes"
    /\ last' = NameCall("normalize_dashes_again", last.src, last.out,
                        normalize_dashes(last.out))
    /\ UNCHANGED <<arena, returned>>

NextName ==
    \/ \E text \in Texts : CrateNameNew(text)
    \/ \E text \in Texts : NormalizeDashes(text)
    \/ NormalizeAgain

SpecName == Init /\ [][NextName]_vars

\* ---------------------------------------------------------- frozen graph

\* Once construction has ended the receiving graph is shared by reference
\* (&self) among the readers.  A hash map that is not written keeps its
\* iteration order, so the order is drawn once, when the graph is frozen.
\* A graph is frozen with at most MaxFrozenCrates crates in the two graphs.
MaxFrozenCrates == 2
Readers == {"r1", "r2"}

ReadCall(op, file_id, crate_id) ==
    [op |-> op, file_id |-> file_id, crate_id |-> crate_id]

\* The reads of the graph; the graph is indexed by the ids present only.
ReadCalls(a) ==
    {ReadCall("is_empty", 0, 0), ReadCall("iter", 0, 0)}
        \cup {ReadCall("crate_id_for_crate_root", f, 0) : f \in FileIds}
        \cup {ReadCall("index", 0, i) : i \in DOMAIN a}

\* CrateGraph::is_empty
is_empty(a) == DOMAIN a = {}

\* CrateGraph::iter: the keys, in the order the hash map yields them.
iter(a, order) == order

\* Index<CrateId>::index
index(a, crate_id) == a[crate_id]

\* What a read returns.
read_out(a, order, call) ==
    CASE call.op = "is_empty" -> is_empty(a)
      [] call.op = "iter" -> iter(a, order)
      [] call.op = "crate_id_for_crate_root" ->
            crate_id_for_crate_root(a, call.file_id, order)
      [] call.op = "index" -> index(a, call.crate_id)

\* A read as it would be if crate_id_for_crate_root took the crate it finds
\* out of the arena (HashMap::remove).
read_taking(a, order, call) ==
    LET out == read_out(a, order, call)
    IN  IF call.op = "crate_id_for_crate_root" /\ out # None
        THEN [arena |-> [i \in DOMAIN a \ {out[1]} |-> a[i]], out |-> out]
        ELSE [arena |-> a, out |-> out]

\* One read on &self: the arena as the read leaves it, and what it returns.
read(a, order, call) ==
    [arena |-> a, out |-> read_out(a, order, call)]

Frozen == last.op = "frozen"

\* Construction ends: the graph and its iteration order are fixed from here
\* on, and no reader has read yet.
Freeze(order) ==
    /\ Running /\ ~Frozen
    /\ NumCrates <= MaxFrozenCrates
    /\ last' = [op |-> "frozen", res |-> "Ok",
                graph |-> arena["self"], order |-> order,
                readers |-> [r \in Readers |->
                                [pc |-> "idle",
                                 call |-> ReadCall("none", 0, 0),
                                 out |-> <<>>]]]
    /\ UNCHANGED <<arena, returned>>

\* Reader r calls a read.
BeginRead(r, call) ==
    /\ Frozen
    /\ last.readers[r].pc \in {"idle", "done"}
    /\ last' = [last EXCEPT !.readers[r] =
                   [pc |-> "reading", call |-> call, out |-> <<>>]]
    /\ UNCHANGED <<arena, returned>>

\* Reader r's read runs on the graph as it is now, and returns.
CompleteRead(r) ==
    /\ Frozen
    /\ last.readers[r].pc = "reading"
    /\ LET x == read(arena["self"], last.order, last.readers[r].call)
       IN  /\ arena' = [arena EXCEPT !["self"] = x.arena]
           /\ last' = [last EXCEPT !.readers[r].pc = "done",
                                   !.readers[r].out = x.out]
    /\ UNCHANGED returned

NextRead ==
    \/ ~Frozen /\ Next
    \/ \E order \in Orders(DOMAIN arena["self"]) : Freeze(order)
    \/ \E r \in Readers : \E call \in ReadCalls(arena["self"]) :
          BeginRead(r, call)
    \/ \E r \in Readers : CompleteRead(r)

SpecRead == Init /\ [][NextRead]_vars

\* ---------------------------------------------------------------- edition

\* The texts given to Edition::from_str: up to MaxEditionLen characters out
\* of the digits of "2015" and "2018".
MaxEditionLen == 5
EditionChars == {"0", "1", "2", "5", "8"}
EditionTexts == UNION {[1 .. n -> EditionChars] : n \in 0 .. MaxEditionLen}
Editions == {Edition2015, Edition2018}

Lit2015 == <<"2", "0", "1", "5">>
Lit2018 == <<"2", "0", "1", "8">>

\* Edition::from_str as it would be if it matched on the first four
\* characters only (s.starts_with).
Edition_from_str_prefix(s) ==
    IF Len(s) >= 4 /\ SubSeq(s, 1, 4) = Lit2015
    THEN [res |-> "Ok", out |-> Edition2015]
    ELSE IF Len(s) >= 4 /\ SubSeq(s, 1, 4) = Lit2018
    THEN [res |-> "Ok", out |-> Edition2018]
    ELSE [res |-> "Err", out |-> [invalid_input |-> s]]

\* Edition::from_str: the match on s, with ParseEditionError { invalid_input:
\* s.to_string() } in the default arm.
Edition_from_str(s) ==
    IF s = Lit2015 THEN [res |-> "Ok", out |-> Edition2015]
    ELSE IF s = Lit2018 THEN [res |-> "Ok", out |-> Edition2018]
    ELSE [res |-> "Err", out |-> [invalid_input |-> s]]

\* Display for Edition as it would be with one text for both variants.
Edition_fmt_one_text(e) == Lit2018

\* Display for Edition: the text written to the formatter.
Edition_fmt(e) == IF e = Edition2015 THEN Lit2015 ELSE Lit2018

\* The record of a call on an edition: the edition the caller started from
\* (if any), the text, and what came back.
EditionCall(op, src, text, res, out) ==
    [op |-> op, src |-> src, text |-> text, res |-> res, out |-> out]

EditionFromStr(text) ==
    /\ LET r == Edition_from_str(text)
       IN  last' = EditionCall("Edition::from_str", None, text, r.res, r.out)
    /\ UNCHANGED <<arena, returned>>

EditionFmt(e) ==
    /\ last' = EditionCall("Edition::fmt", Some(e), Edition_fmt(e), "Ok", None)
    /\ UNCHANGED <<arena, returned>>

\* The caller parses the text it got from rendering an edition.
EditionParseRendered ==
    /\ last.op = "Edition::fmt"
    /\ LET r == Edition_from_str(last.text)
       IN  last' = EditionCall("Edition::from_str(fmt)", last.src, last.text,
                               r.res, r.out)
    /\ UNCHANGED <<arena, returned>>

NextEdition ==
    \/ \E text \in EditionTexts : EditionFromStr(text)
    \/ \E e \in Editions : EditionFmt(e)
    \/ EditionParseRendered

SpecEdition == Init /\ [][NextEdition]_vars

\* ------------------------------------------------------------ source root

\* Relative paths are keys compared for equality; up to MaxRootOps calls of
\* insert_file and remove_file are made on one source root.
MaxRootOps == 4
Paths == {"p1", "p2"}

\* SourceRoot::new_local, SourceRoot::new_library
SourceRoot_new(is_library) == [is_library |-> is_library, files |-> EmptyMap]

\* insert_file as it would be if a present path kept its file id
\* (entry(path).or_insert(file_id)).
insert_file_keep(root, path, file_id) ==
    IF path \in DOMAIN root.files THEN root
    ELSE [root EXCEPT !.files = insert(@, path, file_id)]

\* SourceRoot::insert_file
insert_file(root, path, file_id) ==
    [root EXCEPT !.files = insert(@, path, file_id)]

\* remove_file as it would be if it dropped every path of the removed
\* path's file (retain(|_, f| *f != removed)).
remove_file_by_id(root, path) ==
    IF path \in DOMAIN root.files
    THEN [root EXCEPT !.files =
             [q \in {q \in DOMAIN @ : @[q] # @[path]} |-> @[q]]]
    ELSE root

\* SourceRoot::remove_file: HashMap::remove, which does nothing for a key
\* that is not in the map.
remove_file(root, path) ==
    [root EXCEPT !.files = [q \in DOMAIN @ \ {path} |-> @[q]]]

\* walk as it would be if it stopped after the first value.
walk_first_only(root, order) ==
    IF Len(order) = 0 THEN <<>> ELSE <<root.files[order[1]]>>

\* SourceRoot::walk: the values of the map, in the order it yields them.
walk(root, order) == [i \in 1 .. Len(order) |-> root.files[order[i]]]

\* SourceRoot::file_by_relative_path
file_by_relative_path(root, path) ==
    IF path \in DOMAIN root.files THEN Some(root.files[path]) ELSE None

\* The record of a call on a source root: the root before and after it, the
\* writes made so far (insert_file and remove_file, in order), the call's
\* arguments and what it returned.
RootCall(op, prev, root, hist, path, file_id, out) ==
    [op |-> op, res |-> "Ok", prev |-> prev, root |-> root, hist |-> hist,
     path |-> path, file_id |-> file_id, out |-> out]

RootOps == {"SourceRoot::new", "insert_file", "remove_file", "walk",
            "file_by_relative_path"}

SourceRootNew(is_library) ==
    /\ last.op = "new"
    /\ LET root == SourceRoot_new(is_library)
       IN  last' = RootCall("SourceRoot::new", root, root, <<>>, "", 0, None)
    /\ UNCHANGED <<arena, returned>>

InsertFile(path, file_id) ==
    /\ last.op \in RootOps
    /\ Len(last.hist) < MaxRootOps
    /\ last' = RootCall("insert_file", last.root,
                        insert_file(last.root, path, file_id),
                        Append(last.hist, [op |-> "insert_file", path |-> path,
                                           file_id |-> file_id]),
                        path, file_id, None)
    /\ UNCHANGED <<arena, returned>>

RemoveFile(path) ==
    /\ last.op \in RootOps
    /\ Len(last.hist) < MaxRootOps
    /\ last' = RootCall("remove_file", last.root,
                        remove_file(last.root, path),
                        Append(last.hist, [op |-> "remove_file", path |-> path,
                                           file_id |-> 0]),
                        path, 0, None)
    /\ UNCHANGED <<arena, returned>>

Walk(order) ==
    /\ last.op \in RootOps
    /\ last' = RootCall("walk", last.root, last.root, last.hist, "", 0,
                        walk(last.root, order))
    /\ UNCHANGED <<arena, returned>>

FileByRelativePath(path) ==
    /\ last.op \in RootOps
    /\ last' = RootCall("file_by_relative_path", last.root, last.root,
                        last.hist, path, 0,
                        file_by_relative_path(last.root, path))
    /\ UNCHANGED <<arena, returned>>

NextRoot ==
    \/ \E is_library \in BOOLEAN : SourceRootNew(is_library)
    \/ \E path \in Paths, file_id \in FileIds : InsertFile(path, file_id)
    \/ \E path \in Paths : RemoveFile(path)
    \/ \E order \in Orders(IF last.op \in RootOps
                           THEN DOMAIN last.root.files ELSE {}) : Walk(order)
    \/ \E path \in Paths : FileByRelativePath(path)

SpecRoot == Init /\ [][NextRoot]_vars

\* -------------------------------------------------------------------- env

\* Up to MaxEnvOps calls of set are made on one Env, over two keys and two
\* values.
MaxEnvOps == 4
EnvKeys == {"K1", "K2"}
EnvValues == {"v1", "v2"}

\* Env::default()
Env_default == [entries |-> EmptyMap]

\* Env::set as it would be if a key that is set kept its value
\* (entry(key).or_insert(value)).
Env_set_keep(e, env, value) ==
    IF env \in DOMAIN e.entries THEN e
    ELSE [e EXCEPT !.entries = insert(@, env, value)]

\* Env::set
Env_set(e, env, value) == [e EXCEPT !.entries = insert(@, env, value)]

\* Env::get
Env_get(e, env) ==
    IF env \in DOMAIN e.entries THEN Some(e.entries[env]) ELSE None

\* The record of a call on an Env: the Env before and after it, the sets made
\* so far, the call's arguments and what it returned.
EnvCall(op, prev, e, hist, env, value, out) ==
    [op |-> op, res |-> "Ok", prev |-> prev, e |-> e, hist |-> hist,
     env |-> env, value |-> value, out |-> out]

EnvOps == {"Env::default", "Env::set", "Env::get"}

EnvDefault ==
    /\ last.op = "new"
    /\ last' = EnvCall("Env::default", Env_default, Env_default, <<>>,
                       "", "", None)
    /\ UNCHANGED <<arena, returned>>

EnvSet(env, value) ==
    /\ last.op \in EnvOps
    /\ Len(last.hist) < MaxEnvOps
    /\ last' = EnvCall("Env::set", last.e, Env_set(last.e, env, value),
                       Append(last.hist, [env |-> env, value |-> value]),
                       env, value, None)
    /\ UNCHANGED <<arena, returned>>

EnvGet(env) ==
    /\ last.op \in EnvOps
    /\ last' = EnvCall("Env::get", last.e, last.e, last.hist, env, "",
                       Env_get(last.e, env))
    /\ UNCHANGED <<arena, returned>>

NextEnv ==
    \/ EnvDefault
    \/ \E env \in EnvKeys, value \in EnvValues : EnvSet(env, value)
    \/ \E env \in EnvKeys : EnvGet(env)

SpecEnv == Init /\ [][NextEnv]_vars

\* ---------------------------------------------------------- extern source

\* A path is the sequence of its components (Path::components): the root
\* directory, which only comes first, the name "a", and a name that is not
\* UTF-8.  Paths have up to MaxPathLen components, and up to MaxExternSets
\* calls of set_extern_path are made on one ExternSource.
MaxPathLen == 3
MaxExternSets == 2
RootDir == "/"
NonUtf8 == "<non-utf8>"
PathComps == {RootDir, "a", NonUtf8}
FsPaths ==
    {q \in UNION {[1 .. n -> PathComps] : n \in 0 .. MaxPathLen} :
        \A i \in 2 .. Len(q) : q[i] # RootDir}
ExternSourceIds == {1, 2}

\* ExternSource::default()
ExternSource_default == [extern_paths |-> EmptyMap]

\* Path::strip_prefix: the components after those of base, if the path
\* starts with them.
strip_prefix(path, base) ==
    IF Len(base) <= Len(path) /\ SubSeq(path, 1, Len(base)) = base
    THEN Some(SubSeq(path, Len(base) + 1, Len(path)))
    ELSE None

\* RelativePathBuf::from_path(..).ok(): nothing for a path with a root
\* directory or with a component that is not UTF-8.
from_path(path) ==
    IF \E i \in 1 .. Len(path) : path[i] \in {RootDir, NonUtf8}
    THEN None
    ELSE Some(path)

\* The find_map as it would be if a remainder that does not convert ended
\* the search (the `?` leaving extern_path and not the closure).
RECURSIVE find_map_stop(_, _, _, _)
find_map_stop(es, path, order, i) ==
    IF i > Len(order) THEN None
    ELSE LET root_path == order[i]
             rel_path == strip_prefix(path, root_path)
         IN  IF rel_path # None
             THEN (IF from_path(rel_path[1]) = None THEN None
                   ELSE Some(<<es.extern_paths[root_path],
                               from_path(rel_path[1])[1]>>))
             ELSE find_map_stop(es, path, order, i + 1)

\* self.extern_paths.iter().find_map(..): the first entry, from the i-th of
\* the order on, for which the closure returns Some.
RECURSIVE find_map(_, _, _, _)
find_map(es, path, order, i) ==
    IF i > Len(order) THEN None
    ELSE LET root_path == order[i]
             rel_path == strip_prefix(path, root_path)
         IN  IF rel_path # None /\ from_path(rel_path[1]) # None
             THEN Some(<<es.extern_paths[root_path],
                         from_path(rel_path[1])[1]>>)
             ELSE find_map(es, path, order, i + 1)

\* ExternSource::extern_path
extern_path(es, path, order) == find_map(es, path, order, 1)

\* ExternSource::set_extern_path
set_extern_path(es, root_path, root) ==
    [es EXCEPT !.extern_paths = insert(@, root_path, root)]

\* The record of a call on an ExternSource: the table after it, the
\* set_extern_path calls made so far, the call's arguments and what it
\* returned.
ExternCall(op, es, hist, path, id, out) ==
    [op |-> op, res |-> "Ok", es |-> es, hist |-> hist, path |-> path,
     id |-> id, out |-> out]

ExternOps == {"ExternSource::default", "set_extern_path", "extern_path"}

ExternSourceDefault ==
    /\ last.op = "new"
    /\ last' = ExternCall("ExternSource::default", ExternSource_default,
                          <<>>, <<>>, 0, None)
    /\ UNCHANGED <<arena, returned>>

SetExternPath(root_path, root) ==
    /\ last.op \in ExternOps
    /\ Len(last.hist) < MaxExternSets
    /\ last' = ExternCall("set_extern_path",
                          set_extern_path(last.es, root_path, root),
                          Append(last.hist,
                                 [root_path |-> root_path, root |-> root]),
                          root_path, root, None)
    /\ UNCHANGED <<arena, returned>>

ExternPath(path, order) ==
    /\ last.op \in ExternOps
    /\ last' = ExternCall("extern_path", last.es, last.hist, path, 0,
                          extern_path(last.es, path, order))
    /\ UNCHANGED <<arena, returned>>

NextExtern ==
    \/ ExternSourceDefault
    \/ \E root_path \in FsPaths, root \in ExternSourceIds :
          SetExternPath(root_path, root)
    \/ \E path \in FsPaths :
          \E order \in Orders(IF last.op \in ExternOps
                              THEN DOMAIN last.es.extern_paths ELSE {}) :
             ExternPath(path, order)

SpecExtern == Init /\ [][NextExtern]_vars

\* ------------------------------------------------------------- proc macro

\* A registration is a name and an Arc<dyn TokenExpander>; the Arc is the
\* pointer to its allocation, and a clone of an Arc is the same pointer.
MacroNames == {"m", "n", "o"}
Expanders == {1, 2, 3, 4}
Registrations == [name : MacroNames, expander : Expanders]

\* Arc::ptr_eq
Arc_ptr_eq(this, other) == this = other

\* PartialEq for ProcMacro as it would be if derived on the name alone.
ProcMacro_eq_by_name(self, other) == self.name = other.name

\* PartialEq for ProcMacro
ProcMacro_eq(self, other) ==
    self.name = other.name /\ Arc_ptr_eq(self.expander, other.expander)

ProcMacroEq(self, other) ==
    /\ last' = [op |-> "ProcMacro::eq", res |-> "Ok", self |-> self,
                other |-> other, out |-> ProcMacro_eq(self, other)]
    /\ UNCHANGED <<arena, returned>>

NextMacro == \E self \in Registrations, other \in Registrations :
                 ProcMacroEq(self, other)

SpecMacro == Init /\ [][NextMacro]_vars

\* ------------------------------------------------------------ three graphs

\* Three graphs g[1], g[2], g[3] are built by add_crate_root and add_dep, up
\* to MaxAssocCrates crates and MaxAssocDeps edges in all, and then merged in
\* the two orders.
MaxAssocCrates == 4
MaxAssocDeps == 2
Parts == {1, 2, 3}

PartsCrates(g) == len(g[1]) + len(g[2]) + len(g[3])
PartsDeps(g) == SumDeps(g[1], DOMAIN g[1]) + SumDeps(g[2], DOMAIN g[2])
                + SumDeps(g[3], DOMAIN g[3])

\* The record of a step on the three graphs; left and right are the two
\* merges, once made.
PartsCall(op, res, g, left, right) ==
    [op |-> op, res |-> res, g |-> g, left |-> left, right |-> right]

Building == last.op \in {"three graphs", "part add_crate_root", "part add_dep"}

PartsNew ==
    /\ last.op = "new"
    /\ last' = PartsCall("three graphs", "Ok",
                         [i \in Parts |-> CrateGraph_default], None, None)
    /\ UNCHANGED <<arena, returned>>

PartAddCrateRoot(i, in) ==
    /\ Building
    /\ PartsCrates(last.g) < MaxAssocCrates
    /\ LET r == add_crate_root(last.g[i], in)
       IN  last' = PartsCall("part add_crate_root", r.res,
                             [last.g EXCEPT ![i] = r.arena], None, None)
    /\ UNCHANGED <<arena, returned>>

PartAddDep(i, from, name, to) ==
    /\ Building
    /\ LET r == add_dep(last.g[i], from, name, to)
       IN  /\ r.res = "Ok" => PartsDeps(last.g) < MaxAssocDeps
           /\ last' = PartsCall("part add_dep", r.res,
                                [last.g EXCEPT ![i] = r.arena], None, None)
    /\ UNCHANGED <<arena, returned>>

\* g1.extend(g2); g1.extend(g3) on the one hand, g2.extend(g3); g1.extend(g2)
\* on the other, from the same three graphs.  shift3 is where a crate with
\* id 0 of g3 ends up.
ExtendBothWays ==
    /\ Building
    /\ LET g == last.g
           l12 == extend(g[1], g[2])
           l123 == extend(l12.arena, g[3])
           r23 == extend(g[2], g[3])
           r123 == extend(g[1], r23.arena)
       IN  last' = PartsCall("extend both ways", "Ok", g,
                             Some([arena |-> l123.arena,
                                   shift3 |-> shift(0, l123.id)]),
                             Some([arena |-> r123.arena,
                                   shift3 |-> shift(shift(0, r23.id),
                                                    r123.id)]))
    /\ UNCHANGED <<arena, returned>>

NextAssoc ==
    \/ PartsNew
    \/ \E i \in Parts, in \in CrateInputs : PartAddCrateRoot(i, in)
    \/ \E i \in Parts, name \in DepNames :
          \E from \in (IF Building THEN DOMAIN last.g[i] ELSE {}),
             to \in (IF Building THEN DOMAIN last.g[i] ELSE {}) :
             PartAddDep(i, from, name, to)
    \/ ExtendBothWays

SpecAssoc == Init /\ [][NextAssoc]_vars

\* ------------------------------------------------------------ the search

\* One graph of up to MaxDfsCrates crates and MaxDfsDeps edges is built by
\* add_crate_root and add_dep; then dfs_find runs on it a step at a time.
\* The calls of dfs_find that have not returned are the frames of the stack:
\* crate is the call's `from`, i = 0 says that the call has not yet come to
\* visited.insert(from), and i >= 1 is the place of the for loop in
\* self[from].dependencies.  expanded counts, for each crate, how often the
\* loop over its dependencies was begun, and steps counts the steps.
MaxDfsCrates == 3
MaxDfsDeps == 3

Frame(crate, i) == [crate |-> crate, i |-> i]

\* The search dfs_find(target, from, &mut FxHashSet::default()) at its call.
dfs_start(a, target, from) ==
    [target |-> target, from |-> from, stack |-> <<Frame(from, 0)>>,
     visited |-> {}, expanded |-> [c \in DOMAIN a |-> 0], steps |-> 0,
     result |-> "running"]

\* The innermost call returns false: its caller's loop goes on, and the
\* search is over when there is no caller.
dfs_return_false(s) ==
    LET rest == SubSeq(s.stack, 1, Len(s.stack) - 1)
    IN  [s EXCEPT !.stack = rest,
                  !.steps = @ + 1,
                  !.result = IF rest = <<>> THEN "false" ELSE "running"]

\* A step of the search as it would be without the visited set.
dfs_step_no_visited(a, s) ==
    LET n == Len(s.stack)
        f == s.stack[n]
    IN  IF f.i = 0
        THEN IF f.crate \notin DOMAIN a
             THEN [s EXCEPT !.stack = <<>>, !.steps = @ + 1,
                            !.result = "panic"]
             ELSE [s EXCEPT !.expanded[f.crate] = @ + 1,
                            !.stack[n].i = 1,
                            !.steps = @ + 1]
        ELSE IF f.i > Len(a[f.crate].dependencies)
        THEN dfs_return_false(s)
        ELSE IF a[f.crate].dependencies[f.i].crate_id = s.target
        THEN [s EXCEPT !.stack = <<>>, !.steps = @ + 1, !.result = "true"]
        ELSE [s EXCEPT !.stack = Append([@ EXCEPT ![n].i = f.i + 1],
                                        Frame(a[f.crate].dependencies[f.i].crate_id, 0)),
                       !.steps = @ + 1]

\* One step of dfs_find in the innermost call: the test of
\* visited.insert(from), or one turn of the for loop (a dependency that is
\* the target ends every call with true, any other is searched by a new
\* call), or the `false` after the loop.
dfs_step(a, s) ==
    LET n == Len(s.stack)
        f == s.stack[n]
    IN  IF f.i = 0
        THEN IF f.crate \in s.visited
             THEN dfs_return_false(s)
             ELSE IF f.crate \notin DOMAIN a
             THEN [s EXCEPT !.visited = @ \cup {f.crate},
                            !.stack = <<>>, !.steps = @ + 1,
                            !.result = "panic"]
             ELSE [s EXCEPT !.visited = @ \cup {f.crate},
                            !.expanded[f.crate] = @ + 1,
                            !.stack[n].i = 1,
                            !.steps = @ + 1]
        ELSE IF f.i > Len(a[f.crate].dependencies)
        THEN dfs_return_false(s)
        ELSE IF a[f.crate].dependencies[f.i].crate_id = s.target
        THEN [s EXCEPT !.stack = <<>>, !.steps = @ + 1, !.result = "true"]
        ELSE [s EXCEPT !.stack = Append([@ EXCEPT ![n].i = f.i + 1],
                                        Frame(a[f.crate].dependencies[f.i].crate_id, 0)),
                       !.steps = @ + 1]

\* The record of a step: the graph, and the search once it has begun.
DfsCall(op, res, g, s) == [op |-> op, res |-> res, g |-> g, s |-> s]

DfsBuilding == last.op \in {"graph", "graph add_crate_root", "graph add_dep"}

DfsNew ==
    /\ last.op = "new"
    /\ last' = DfsCall("graph", "Ok", CrateGraph_default, None)
    /\ UNCHANGED <<arena, returned>>

DfsAddCrateRoot(in) ==
    /\ DfsBuilding
    /\ len(last.g) < MaxDfsCrates
    /\ LET r == add_crate_root(last.g, in)
       IN  last' = DfsCall("graph add_crate_root", r.res, r.arena, None)
    /\ UNCHANGED <<arena, returned>>

DfsAddDep(from, name, to) ==
    /\ DfsBuilding
    /\ LET r == add_dep(last.g, from, name, to)
       IN  /\ r.res = "Ok"
           /\ SumDeps(last.g, DOMAIN last.g) < MaxDfsDeps
           /\ last' = DfsCall("graph add_dep", r.res, r.arena, None)
    /\ UNCHANGED <<arena, returned>>

\* add_dep(target, _, from) calls self.dfs_find(from, to, ..), that is, the
\* search for its `from` that begins at its `to`.
DfsFind(target, from) ==
    /\ DfsBuilding
    /\ last' = DfsCall("dfs_find", "Ok", last.g,
                       Some(dfs_start(last.g, target, from)))
    /\ UNCHANGED <<arena, returned>>

DfsStep ==
    /\ last.op = "dfs_find"
    /\ last.s[1].stack # <<>>
    /\ last' = [last EXCEPT !.s = Some(dfs_step(last.g, last.s[1]))]
    /\ UNCHANGED <<arena, returned>>

NextDfs ==
    \/ DfsNew
    \/ \E in \in CrateInputs : DfsAddCrateRoot(in)
    \/ \E name \in DepNames :
          \E from \in (IF DfsBuilding THEN DOMAIN last.g ELSE {}),
             to \in (IF DfsBuilding THEN DOMAIN last.g ELSE {}) :
             DfsAddDep(from, name, to)
    \/ \E target \in (IF DfsBuilding THEN CrateIds(last.g) ELSE {}),
          from \in (IF DfsBuilding THEN DOMAIN last.g ELSE {}) :
          DfsFind(target, from)
    \/ DfsStep

SpecDfs == Init /\ [][NextDfs]_vars

\* ----------------------------------------------------------------- claims

\* The targets of the edges stored in crate i's dependency list.
Succ(a, i) ==
    IF i \in DOMAIN a
    THEN {a[i].dependencies[k].crate_id : k \in 1 .. Len(a[i].dependencies)}
    ELSE {}

RECURSIVE Closure(_, _)
Closure(a, S) ==
    LET T == S \cup UNION {Succ(a, i) : i \in S}
    IN  IF T = S THEN S ELSE Closure(a, T)

\* The crates reached from x by following one or more edges.
Reachable(a, x) == Closure(a, Succ(a, x))

Acyclic(a) == \A i \in DOMAIN a : i \notin Reachable(a, i)

IsPrefix(s, t) == Len(s) <= Len(t) /\ \A k \in 1 .. Len(s) : t[k] = s[k]

\* C1: in every reachable state the dependency edges of each graph form an
\* acyclic directed graph; no crate reaches itself along one or more edges.
C1_GraphAcyclic == \A g \in GraphNames : Acyclic(arena[g])

\* C2: for distinct crates from and to of a graph, if from is reachable from
\* to along existing edges, add_dep(from, name, to) returns the
\* CyclicDependenciesError, for every name.
C2_CycleClosingEdgeRejected ==
    \A g \in GraphNames : \A from \in DOMAIN arena[g], to \in DOMAIN arena[g] :
        (from # to /\ from \in Reachable(arena[g], to))
            => \A name \in DepNames :
                  add_dep(arena[g], from, name, to).res = "Err"

\* A call add_dep(from, name, to) has just failed where from is reached from
\* to only through a third crate.
C2_Witness ==
    /\ last.op = "add_dep" /\ last.res = "Err"
    /\ last.from # last.to
    /\ last.from \in Reachable(arena[last.g], last.to)
    /\ last.from \notin Succ(arena[last.g], last.to)

\* C3: for every crate A of a graph and every name, add_dep(A, name, A)
\* fails with the cyclic-dependency condition and A's dependency list gains
\* no edge to A.
C3_SelfLoopRejected ==
    [][(/\ last'.op = "add_dep"
        /\ last'.from = last'.to
        /\ last'.from \in DOMAIN arena[last'.g])
          => /\ last'.res = "Err"
             /\ last'.to \notin Succ(arena'[last'.g], last'.from)
                                \ Succ(arena[last'.g], last'.from)]_vars

\* C4: a call of add_dep that returns the CyclicDependenciesError leaves the
\* whole state of both graphs (ids and every record) as it was.
C4_ErrLeavesGraphUnchanged ==
    [][(last'.op = "add_dep" /\ last'.res = "Err") => arena' = arena]_vars

\* A call of add_dep has just failed on a graph that holds edges.
C4_Witness ==
    /\ last.op = "add_dep" /\ last.res = "Err"
    /\ \E i \in DOMAIN arena[last.g] : Len(arena[last.g][i].dependencies) > 0

\* C5: for distinct crates from and to of a graph with from not reachable
\* from to, add_dep(from, name, to) returns Ok, and the graph it leaves is
\* acyclic when the graph before the call was.
C5_AcyclicEdgeAccepted ==
    \A g \in GraphNames : \A from \in DOMAIN arena[g], to \in DOMAIN arena[g] :
        (from # to /\ from \notin Reachable(arena[g], to))
            => \A name \in DepNames :
                  LET r == add_dep(arena[g], from, name, to)
                  IN  /\ r.res = "Ok"
                      /\ Acyclic(arena[g]) => Acyclic(r.arena)

\* A call add_dep(from, name, to) has just succeeded on an acyclic graph
\* where the search from to had edges to follow and did not meet from.
C5_Witness ==
    /\ last.op = "add_dep" /\ last.res = "Ok"
    /\ last.from # last.to
    /\ Acyclic(arena[last.g])
    /\ Succ(arena[last.g], last.to) # {}
    /\ last.from \notin Reachable(arena[last.g], last.to)

\* C6: a successful add_dep(from, name, to) appends exactly one entry, with
\* crate_id = to and the given name, at the end of from's dependency list;
\* the entries already there keep their values and order.
C6_EdgeAppended ==
    [][(last'.op = "add_dep" /\ last'.res = "Ok") =>
          arena'[last'.g][last'.from].dependencies =
              Append(arena[last'.g][last'.from].dependencies,
                     [name |-> last'.name, crate_id |-> last'.to])]_vars

\* A successful add_dep has just added a second, different entry to a list.
C6_Witness ==
    /\ last.op = "add_dep" /\ last.res = "Ok"
    /\ LET deps == arena[last.g][last.from].dependencies
       IN  Len(deps) = 2 /\ deps[1] # deps[2]

SameButDeps(d, e) ==
    /\ d.root_file_id = e.root_file_id
    /\ d.edition = e.edition
    /\ d.display_name = e.display_name
    /\ d.cfg_options = e.cfg_options
    /\ d.env = e.env
    /\ d.extern_source = e.extern_source
    /\ d.proc_macro = e.proc_macro

\* Graph g after a step holds every crate it held before, with the same
\* fields and a dependency list the old one is a prefix of.
Grown(g) ==
    /\ DOMAIN arena[g] \subseteq DOMAIN arena'[g]
    /\ \A i \in DOMAIN arena[g] :
          /\ SameButDeps(arena[g][i], arena'[g][i])
          /\ IsPrefix(arena[g][i].dependencies, arena'[g][i].dependencies)

\* C7: across every step the set of crate ids of a graph only grows, every
\* crate already present keeps its root file, edition, display name, cfg,
\* env, extern sources and macros, and its dependency list before the step is
\* a prefix of the list after it.  (The graph handed to extend is consumed by
\* that call: it is followed up to there.)
C7_AppendOnly == [][Grown("self") /\ (last'.op # "extend" => Grown("other"))]_vars

\* The receiving graph holds a crate of its own with an edge and a crate
\* merged in by extend.
C7_Witness ==
    /\ last.op = "extend" /\ last.id > 0
    /\ DOMAIN arena["self"] # returned["self"]
    /\ \E i \in returned["self"] : Len(arena["self"][i].dependencies) > 0

\* C8: add_crate_root on a graph of n crates returns n and leaves n+1 crates;
\* the record under n carries the given root file, edition, display name,
\* cfg, env, extern sources and macros (in the given order) and an empty
\* dependency list, and the n earlier records are unchanged.
C8_AddCrateRoot ==
    [][last'.op = "add_crate_root" =>
          LET g == last'.g
              n == len(arena[g])
              in == last'.input
          IN  /\ last'.res = "Ok" /\ last'.id = n
              /\ DOMAIN arena'[g] = DOMAIN arena[g] \cup {n}
              /\ len(arena'[g]) = n + 1
              /\ arena'[g][n].root_file_id = in.file_id
              /\ arena'[g][n].edition = in.edition
              /\ arena'[g][n].display_name = in.display_name
              /\ arena'[g][n].cfg_options = in.cfg_options
              /\ arena'[g][n].env = in.env
              /\ arena'[g][n].extern_source = in.extern_source
              /\ Len(arena'[g][n].proc_macro) = Len(in.proc_macro)
              /\ \A k \in 1 .. Len(in.proc_macro) :
                    /\ arena'[g][n].proc_macro[k].name = in.proc_macro[k][1]
                    /\ arena'[g][n].proc_macro[k].expander = in.proc_macro[k][2]
              /\ arena'[g][n].dependencies = <<>>
              /\ \A i \in DOMAIN arena[g] : arena'[g][i] = arena[g][i]]_vars

\* add_crate_root has just stored a crate with a display name and two macros
\* in a graph that already held crates.
C8_Witness ==
    /\ last.op = "add_crate_root" /\ last.res = "Ok" /\ last.id >= 1
    /\ last.input.display_name # None
    /\ Len(arena[last.g][last.id].proc_macro) = 2

\* C9: each add_crate_root returns an id strictly greater than every id an
\* earlier add_crate_root returned on that graph, and different from every id
\* the graph already holds.
C9_IdsIncreaseNeverReused ==
    [][last'.op = "add_crate_root" =>
          /\ \A i \in returned[last'.g] : last'.id > i
          /\ last'.id \notin DOMAIN arena[last'.g]]_vars

\* add_crate_root has just returned an id on a graph that had returned an id
\* before and had crates merged in by extend and an edge added since.
C9_Witness ==
    /\ last.op = "add_crate_root" /\ last.g = "self"
    /\ Cardinality(returned["self"]) >= 2
    /\ DOMAIN arena["self"] # returned["self"]
    /\ \E i \in DOMAIN arena["self"] : Len(arena["self"][i].dependencies) > 0

\* C10: add_crate_root always succeeds: in every reachable state the id it
\* computes is not yet a key of the arena, and no call of it has panicked.
C10_AddCrateRootSucceeds ==
    /\ last.op = "add_crate_root" => last.res = "Ok"
    /\ \A g \in GraphNames : \A in \in CrateInputs :
          add_crate_root(arena[g], in).res = "Ok"

\* add_crate_root has just succeeded on a graph that extend had merged
\* another graph into.
C10_Witness ==
    /\ last.op = "add_crate_root" /\ last.res = "Ok" /\ last.g = "self"
    /\ \E i \in DOMAIN arena["self"] : i < last.id /\ i \notin returned["self"]

\* C11: extend(other) on a graph of n crates with an other of m crates
\* returns n and leaves n+m crates; the crate with id i in other is stored
\* under i+n with the same root file, edition, name, cfg, env, extern sources
\* and macros, and a dependency list of the same length and order whose k-th
\* entry has the same name and the target j+n for the old target j.
C11_ExtendShifts ==
    LET a == arena["self"]
        o == arena["other"]
        n == len(a)
        m == len(o)
        r == extend(a, o)
    IN  /\ r.id = n
        /\ len(r.arena) = n + m
        /\ \A i \in DOMAIN o :
              /\ i + n \in DOMAIN r.arena
              /\ SameButDeps(o[i], r.arena[i + n])
              /\ Len(r.arena[i + n].dependencies) = Len(o[i].dependencies)
              /\ \A k \in 1 .. Len(o[i].dependencies) :
                    /\ r.arena[i + n].dependencies[k].name
                          = o[i].dependencies[k].name
                    /\ r.arena[i + n].dependencies[k].crate_id
                          = o[i].dependencies[k].crate_id + n

\* extend has just merged a graph with an edge into a graph that held crates.
C11_Witness ==
    /\ last.op = "extend" /\ last.id >= 1
    /\ \E i \in DOMAIN arena["self"] :
          /\ i >= last.id
          /\ Len(arena["self"][i].dependencies) > 0
          /\ arena["self"][i].dependencies[1].crate_id >= last.id

\* C12: extend(other) only appends: every crate the receiving graph held is
\* stored under the same id with the same record afterwards, and no shifted
\* id of other is an id the graph already held.
C12_ExtendKeepsReceiver ==
    LET a == arena["self"]
        o == arena["other"]
        r == extend(a, o)
    IN  /\ \A i \in DOMAIN a : i \in DOMAIN r.arena /\ r.arena[i] = a[i]
        /\ \A j \in DOMAIN o : j + r.id \notin DOMAIN a
        /\ DOMAIN r.arena = DOMAIN a \cup {j + r.id : j \in DOMAIN o}

\* extend has just merged a crate into a graph whose own crate 0 has a
\* different record and an edge.
C12_Witness ==
    /\ last.op = "extend" /\ last.id >= 1
    /\ last.id \in DOMAIN arena["self"]
    /\ ~SameButDeps(arena["self"][0], arena["self"][last.id])
    /\ Len(arena["self"][0].dependencies) > 0

\* The crates of the receiving graph that extend merged in, and those that
\* add_crate_root put there.
Merged == DOMAIN arena["self"] \ returned["self"]
Own == DOMAIN arena["self"] \cap returned["self"]

\* The crates on the cycles that an edge from -> to would close.
CycleNodes(a, from, to) ==
    {from, to} \cup {x \in Reachable(a, to) : from \in Reachable(a, x)}

\* C13: in a graph that extend has merged another graph into, add_dep
\* judges over all crates together: for distinct crates, a call whose edge
\* would close a cycle through crates of both original graphs fails with the
\* cyclic-dependency condition, and a call whose edge closes no cycle
\* succeeds.
C13_CycleCheckAcrossMerge ==
    LET a == arena["self"]
    IN  (Merged # {} /\ Own # {}) =>
        \A from \in DOMAIN a, to \in DOMAIN a : \A name \in DepNames :
            /\ (/\ from # to
                /\ from \in Reachable(a, to)
                /\ CycleNodes(a, from, to) \cap Merged # {}
                /\ CycleNodes(a, from, to) \cap Own # {})
                  => add_dep(a, from, name, to).res = "Err"
            /\ (from # to /\ from \notin Reachable(a, to))
                  => add_dep(a, from, name, to).res = "Ok"

\* add_dep has just refused an edge between a crate of the receiving graph
\* and a merged crate that depends on it, or the other way round.
C13_Witness ==
    /\ last.op = "add_dep" /\ last.res = "Err" /\ last.g = "self"
    /\ last.from # last.to
    /\ (last.from \in Merged) # (last.to \in Merged)
    /\ last.from \in Own \cup Merged /\ last.to \in Own \cup Merged

\* C14: crate_id_for_crate_root(file_id) returns an id of the graph whose
\* record has that root file whenever such a crate exists, and returns
\* absence exactly when no crate of the graph has that root file.
C14_CrateIdForCrateRoot ==
    last.op = "crate_id_for_crate_root" =>
        LET a == arena[last.g]
            f == last.input.file_id
            has == \E i \in DOMAIN a : a[i].root_file_id = f
        IN  /\ last.res = "Some" =>
                  last.id \in DOMAIN a /\ a[last.id].root_file_id = f
            /\ has => last.res = "Some"
            /\ last.res = "None" <=> ~has

\* A lookup has just returned the later of two crates that share the root
\* file: the iteration met it first, after a crate with another root file.
C14_Witness ==
    /\ last.op = "crate_id_for_crate_root" /\ last.res = "Some"
    /\ last.id = 2
    /\ arena["self"][0].root_file_id = last.input.file_id
    /\ arena["self"][1].root_file_id # last.input.file_id

\* C15: add_crate_root with a root file that a crate of the graph already
\* uses succeeds, returns an id different from that crate's, and leaves that
\* crate's record in place; the two crates then share the root file.
C15_SharedRootFile ==
    \A g \in GraphNames : \A in \in CrateInputs :
        LET a == arena[g]
            r == add_crate_root(a, in)
        IN  \A i \in DOMAIN a :
                a[i].root_file_id = in.file_id =>
                    /\ r.res = "Ok"
                    /\ r.id # i
                    /\ i \in DOMAIN r.arena /\ r.arena[i] = a[i]
                    /\ r.id \in DOMAIN r.arena
                    /\ r.arena[r.id].root_file_id = in.file_id

\* add_crate_root has just stored a crate whose root file an earlier crate
\* of the graph has too.
C15_Witness ==
    /\ last.op = "add_crate_root" /\ last.res = "Ok"
    /\ \E i \in DOMAIN arena[last.g] :
          /\ i # last.id
          /\ arena[last.g][i].root_file_id = last.input.file_id
          /\ arena[last.g][last.id].root_file_id = last.input.file_id

\* The call add_dep(A, y, B) right after a successful add_dep(A, x, B)
\* succeeds and leaves the entries (x, B), (y, B), in that order, at the end
\* of A's list.
ParallelEdgeAccepted(g, A, x, B) ==
    \A y \in DepNames \ {x} :
        LET r == add_dep(arena[g], A, y, B)
            deps == r.arena[A].dependencies
            n == Len(deps)
        IN  /\ r.res = "Ok"
            /\ n = Len(arena[g][A].dependencies) + 1
            /\ n >= 2
            /\ deps[n - 1] = [name |-> x, crate_id |-> B]
            /\ deps[n] = [name |-> y, crate_id |-> B]

\* C16: if add_dep(A, x, B) succeeded, a following add_dep(A, y, B) with a
\* different name y succeeds too, and A's list then holds two entries for B,
\* named x and y in that order.
C16_ParallelEdges ==
    (last.op = "add_dep" /\ last.res = "Ok")
        => ParallelEdgeAccepted(last.g, last.from, last.name, last.to)

\* The same for two different crates A and B, which is where it holds.
C16_ParallelEdgesDistinct ==
    (last.op = "add_dep" /\ last.res = "Ok" /\ last.from # last.to)
        => ParallelEdgeAccepted(last.g, last.from, last.name, last.to)

\* The ids that are not keys of the arena, among those a caller may try.
AbsentIds(a) == (0 .. MaxCrates) \ DOMAIN a

\* C17: add_dep with a from or a to that is not in the graph ends in a
\* panic: it returns neither Ok nor the CyclicDependenciesError, and no
\* crate's list has gained an edge.
C17_MissingIdPanics ==
    \A g \in GraphNames :
        LET a == arena[g]
            ids == DOMAIN a \cup AbsentIds(a)
        IN  \A from \in ids, to \in ids : \A name \in DepNames :
                (from \in AbsentIds(a) \/ to \in AbsentIds(a)) =>
                    LET r == add_dep(a, from, name, to)
                    IN  r.res = "Panic" /\ r.arena = a

\* add_dep has just panicked on a missing from, after its search had run
\* over the edges of a present to.
C17_Witness ==
    /\ last.op = "add_dep" /\ last.res = "Panic"
    /\ last.from \notin DOMAIN arena[last.g]
    /\ last.to \in DOMAIN arena[last.g]
    /\ Succ(arena[last.g], last.to) # {}

\* The number of hyphens in a text.
RECURSIVE Hyphens(_)
Hyphens(s) == IF s = <<>> THEN 0
              ELSE (IF Head(s) = "-" THEN 1 ELSE 0) + Hyphens(Tail(s))

\* C18: CrateName::new(text) fails exactly when text contains a hyphen, and
\* the error carries the rejected text verbatim; for a text without a hyphen
\* it succeeds with a name whose text is the input unchanged.
C18_CrateNameNew ==
    last.op = "CrateName::new" =>
        /\ last.res \in {"Ok", "Err"}
        /\ (last.res = "Err") <=> (Hyphens(last.text) > 0)
        /\ last.out = last.text

\* CrateName::new has just rejected a text whose hyphen is not its first
\* character.
C18_Witness ==
    /\ last.op = "CrateName::new" /\ last.res = "Err"
    /\ Len(last.text) >= 2 /\ last.text[1] # "-"
    /\ last.out = last.text

\* C19: normalize_dashes(text) succeeds for every text; the result has the
\* length of the input, an underscore wherever the input has a hyphen and
\* the input's character everywhere else, so it has no hyphen and
\* CrateName::new accepts it.
C19_NormalizeDashes ==
    last.op = "normalize_dashes" =>
        /\ last.res = "Ok"
        /\ Len(last.out) = Len(last.text)
        /\ \A i \in 1 .. Len(last.text) :
              last.out[i] = IF last.text[i] = "-" THEN "_" ELSE last.text[i]
        /\ Hyphens(last.out) = 0
        /\ CrateName_new(last.out) = [res |-> "Ok", out |-> last.out]

\* normalize_dashes has just been given a text with several hyphens, a
\* letter and an underscore.
C19_Witness ==
    /\ last.op = "normalize_dashes"
    /\ Hyphens(last.text) >= 2
    /\ \E i, j \in 1 .. Len(last.text) :
          last.text[i] = "a" /\ last.text[j] = "_"
    /\ Hyphens(last.out) = 0

\* C20: normalize_dashes applied to the text of normalize_dashes(s) gives a
\* name equal to normalize_dashes(s).
C20_NormalizeIdempotent ==
    last.op = "normalize_dashes_again" =>
        /\ last.text = normalize_dashes(last.src).out
        /\ last.res = "Ok"
        /\ last.out = last.text

\* normalize_dashes has just been applied a second time, the first time to a
\* text with several hyphens.
C20_Witness ==
    /\ last.op = "normalize_dashes_again"
    /\ Hyphens(last.src) >= 2
    /\ last.text # last.src
    /\ last.out = last.text

\* C29: within one crate's dependency list, two edges that target the same
\* crate carry different names: no list holds the same (name, target) pair
\* twice.
C29_DistinctNames ==
    \A g \in GraphNames : \A i \in DOMAIN arena[g] :
        LET deps == arena[g][i].dependencies
        IN  \A k \in 1 .. Len(deps), l \in 1 .. Len(deps) :
                (k # l /\ deps[k].crate_id = deps[l].crate_id)
                    => deps[k].name # deps[l].name

\* C30: the target of every stored dependency edge is the id of a crate of
\* the same graph.
C30_NoDanglingEdges ==
    \A g \in GraphNames : \A i \in DOMAIN arena[g] :
        Succ(arena[g], i) \subseteq DOMAIN arena[g]

\* extend has just merged a graph with an edge into a receiver with an edge.
C30_Witness ==
    /\ last.op = "extend" /\ last.id > 0
    /\ \E i \in DOMAIN arena["self"] :
          i >= last.id /\ Succ(arena["self"], i) # {}
    /\ \E i \in DOMAIN arena["self"] :
          i < last.id /\ Succ(arena["self"], i) # {}

\* C28: the reads is_empty, iter, crate_id_for_crate_root and indexing by a
\* present id leave the graph as it was frozen, and under every interleaving
\* of the readers each read returns what it returns when run alone on the
\* frozen graph.
C28_ReadsDoNotMutate ==
    Frozen =>
        /\ arena["self"] = last.graph
        /\ \A r \in Readers :
              last.readers[r].pc = "done" =>
                  last.readers[r].out =
                      read(last.graph, last.order, last.readers[r].call).out

\* One reader has found one of two crates that share a root file while the
\* other reader, which had read before, is in the middle of an iter.
C28_Witness ==
    /\ Frozen
    /\ last.readers["r1"].pc = "done"
    /\ last.readers["r1"].call.op = "crate_id_for_crate_root"
    /\ last.readers["r1"].out # None
    /\ \E i \in DOMAIN arena["self"] :
          /\ i # last.readers["r1"].out[1]
          /\ arena["self"][i].root_file_id = last.readers["r1"].call.file_id
    /\ last.readers["r2"].pc = "reading"
    /\ last.readers["r2"].call.op = "iter"

\* C21: for both editions e, parsing the text that rendering e produced
\* succeeds and yields e.
C21_EditionRoundTrip ==
    last.op = "Edition::from_str(fmt)" =>
        /\ last.res = "Ok"
        /\ Some(last.out) = last.src

\* The text rendered for Edition2015 has just been parsed.
C21_Witness ==
    /\ last.op = "Edition::from_str(fmt)"
    /\ last.src = Some(Edition2015)
    /\ last.text = Lit2015
    /\ last.out = Edition2015

\* C22: Edition::from_str succeeds for exactly the texts "2015" and "2018";
\* for every other text it fails with an error that carries the text.
C22_EditionFromStr ==
    last.op = "Edition::from_str" =>
        /\ (last.res = "Ok") <=> (last.text \in {Lit2015, Lit2018})
        /\ last.res \in {"Ok", "Err"}
        /\ last.res = "Ok" =>
              last.out = IF last.text = Lit2015 THEN Edition2015
                         ELSE Edition2018
        /\ last.res = "Err" => last.out = [invalid_input |-> last.text]

\* Edition::from_str has just refused a text that goes on after "2018".
C22_Witness ==
    /\ last.op = "Edition::from_str" /\ last.res = "Err"
    /\ Len(last.text) > 4 /\ SubSeq(last.text, 1, 4) = Lit2018
    /\ last.out.invalid_input = last.text

\* What the writes made so far say about path p: the file id of the latest
\* insert_file for p if no remove_file for p came after it, else nothing.
RECURSIVE LatestWrite(_, _)
LatestWrite(hist, p) ==
    IF hist = <<>> THEN None
    ELSE LET h == hist[Len(hist)]
         IN  IF h.path = p
             THEN (IF h.op = "insert_file" THEN Some(h.file_id) ELSE None)
             ELSE LatestWrite(SubSeq(hist, 1, Len(hist) - 1), p)

\* The paths present according to the writes made so far.
PresentPaths(hist) == {p \in Paths : LatestWrite(hist, p) # None}

\* C23: after any sequence of insert_file and remove_file calls,
\* file_by_relative_path(p) returns the file id of the most recent
\* insert_file for p if no remove_file(p) came after it, and nothing
\* otherwise; a re-insert overwrites the earlier id.
C23_FileByRelativePath ==
    last.op = "file_by_relative_path" =>
        last.out = LatestWrite(last.hist, last.path)

\* A path has been inserted twice with different file ids and then looked
\* up; a remove_file of the other path was among the writes.
C23_Witness ==
    /\ last.op = "file_by_relative_path"
    /\ \E i, j, k \in 1 .. Len(last.hist) :
          /\ i < j
          /\ last.hist[i].op = "insert_file" /\ last.hist[i].path = last.path
          /\ last.hist[j].op = "insert_file" /\ last.hist[j].path = last.path
          /\ last.hist[i].file_id # last.hist[j].file_id
          /\ last.out = Some(last.hist[j].file_id)
          /\ last.hist[k].op = "remove_file" /\ last.hist[k].path # last.path

\* C24: walk yields one file id for each path currently present, that
\* path's: after insert_file(p1, f1), insert_file(p2, f2), remove_file(p1)
\* with p1 # p2 it yields f2 and nothing else, and a removed path's file id
\* is yielded only if another present path maps to it.
C24_Walk ==
    last.op = "walk" =>
        LET present == PresentPaths(last.hist)
            hist == last.hist
        IN  /\ Len(last.out) = Cardinality(present)
            /\ \A p \in present :
                  \E i \in 1 .. Len(last.out) :
                      Some(last.out[i]) = LatestWrite(hist, p)
            /\ \A i \in 1 .. Len(last.out) :
                  \E p \in present : Some(last.out[i]) = LatestWrite(hist, p)
            /\ (/\ Len(hist) = 3
                /\ hist[1].op = "insert_file" /\ hist[2].op = "insert_file"
                /\ hist[3].op = "remove_file"
                /\ hist[1].path # hist[2].path
                /\ hist[3].path = hist[1].path)
                   => last.out = <<hist[2].file_id>>

\* walk has just run after insert_file(p1, f1), insert_file(p2, f2),
\* remove_file(p1) with two paths and two file ids.
C24_Witness ==
    /\ last.op = "walk"
    /\ Len(last.hist) = 3
    /\ last.hist[1].op = "insert_file" /\ last.hist[2].op = "insert_file"
    /\ last.hist[3].op = "remove_file"
    /\ last.hist[1].path # last.hist[2].path
    /\ last.hist[1].file_id # last.hist[2].file_id
    /\ last.hist[3].path = last.hist[1].path
    /\ last.out = <<last.hist[2].file_id>>

\* C25: remove_file(p) for a path that is not present leaves the table as it
\* was; for a present path it removes p's entry only and leaves every other
\* path's file id and the is_library hint as they were.
C25_RemoveFileFrame ==
    last.op = "remove_file" =>
        /\ last.root.is_library = last.prev.is_library
        /\ last.path \notin DOMAIN last.prev.files
              => last.root.files = last.prev.files
        /\ DOMAIN last.root.files = DOMAIN last.prev.files \ {last.path}
        /\ \A q \in DOMAIN last.root.files :
              last.root.files[q] = last.prev.files[q]

\* remove_file has just removed one of two paths of the same file in a
\* library root.
C25_Witness ==
    /\ last.op = "remove_file"
    /\ last.root.is_library
    /\ last.path \in DOMAIN last.prev.files
    /\ \E q \in DOMAIN last.root.files :
          last.root.files[q] = last.prev.files[last.path]

\* The value of the latest set for key k among the sets made so far.
RECURSIVE LatestSet(_, _)
LatestSet(hist, k) ==
    IF hist = <<>> THEN None
    ELSE LET h == hist[Len(hist)]
         IN  IF h.env = k THEN Some(h.value)
             ELSE LatestSet(SubSeq(hist, 1, Len(hist) - 1), k)

\* C26: after any sequence of set calls, get(k) returns the value of the
\* most recent set for k, or nothing if k was never set; a set for k leaves
\* the value of every other key as it was; a key once set is never absent
\* again.
C26_EnvLastWriteWins ==
    /\ last.op = "Env::get" => last.out = LatestSet(last.hist, last.env)
    /\ last.op = "Env::set" =>
          \A k \in EnvKeys \ {last.env} :
              Env_get(last.e, k) = Env_get(last.prev, k)
    /\ last.op \in EnvOps =>
          \A k \in EnvKeys :
              (\E i \in 1 .. Len(last.hist) : last.hist[i].env = k)
                  => Env_get(last.e, k) # None

\* get has just returned the second of two different values set for its key,
\* with a set for the other key made in between.
C26_Witness ==
    /\ last.op = "Env::get"
    /\ \E i, j, l \in 1 .. Len(last.hist) :
          /\ i < l /\ l < j
          /\ last.hist[i].env = last.env /\ last.hist[j].env = last.env
          /\ last.hist[l].env # last.env
          /\ last.hist[i].value # last.hist[j].value
          /\ last.out = Some(last.hist[j].value)
          /\ \A m \in j + 1 .. Len(last.hist) : last.hist[m].env # last.env

\* The id of the latest set_extern_path for prefix p among the calls made so
\* far.
RECURSIVE LatestExtern(_, _)
LatestExtern(hist, p) ==
    IF hist = <<>> THEN None
    ELSE LET h == hist[Len(hist)]
         IN  IF h.root_path = p THEN Some(h.root)
             ELSE LatestExtern(SubSeq(hist, 1, Len(hist) - 1), p)

\* p is the path or one of its ancestors (Path::ancestors): its components
\* begin the path's, and the empty path is an ancestor of relative paths only.
IsAncestor(p, path) ==
    /\ Len(p) <= Len(path)
    /\ \A i \in 1 .. Len(p) : path[i] = p[i]
    /\ p = <<>> => (path = <<>> \/ path[1] # RootDir)

\* What follows p in the path.
Remainder(p, path) == SubSeq(path, Len(p) + 1, Len(path))

\* extern_path returned (id, remainder) only for a registered prefix that
\* maps to id, is an ancestor of the path and gives the path when the
\* remainder follows it.
ExternPathSound ==
    last.out # None =>
        \E p \in FsPaths :
            /\ LatestExtern(last.hist, p) = Some(last.out[1][1])
            /\ IsAncestor(p, last.path)
            /\ p \o last.out[1][2] = last.path

\* C27: extern_path(path) returns (id, remainder) only if some registered
\* prefix p maps to id (the id of the latest set_extern_path for p), p is an
\* ancestor of path and p followed by remainder is path; it returns nothing
\* exactly when no registered prefix is an ancestor of path.
C27_ExternPath ==
    last.op = "extern_path" =>
        /\ ExternPathSound
        /\ (last.out = None) <=>
              ~ \E p \in FsPaths :
                    /\ LatestExtern(last.hist, p) # None
                    /\ IsAncestor(p, last.path)

\* C27 as amended: it returns nothing exactly when no registered prefix is
\* an ancestor of path with a remainder all of whose components are UTF-8.
C27_ExternPathUtf8 ==
    last.op = "extern_path" =>
        /\ ExternPathSound
        /\ (last.out = None) <=>
              ~ \E p \in FsPaths :
                    /\ LatestExtern(last.hist, p) # None
                    /\ IsAncestor(p, last.path)
                    /\ \A i \in 1 .. Len(Remainder(p, last.path)) :
                          Remainder(p, last.path)[i] # NonUtf8

\* extern_path has just returned the id of one of two registered ancestors
\* of its path, the other of which leaves a remainder that is not UTF-8.
C27_Witness ==
    /\ last.op = "extern_path"
    /\ last.out # None
    /\ last.out[1][2] # <<>>
    /\ \E p \in FsPaths :
          /\ LatestExtern(last.hist, p) # None
          /\ IsAncestor(p, last.path)
          /\ \E i \in 1 .. Len(Remainder(p, last.path)) :
                Remainder(p, last.path)[i] = NonUtf8

\* C31: a graph holding n crates has exactly the ids 0, 1, ..., n-1.
C31_IdsDense ==
    \A g \in GraphNames :
        DOMAIN arena[g] = 0 .. Cardinality(DOMAIN arena[g]) - 1

\* extend has just merged a graph of two crates into a receiver that has a
\* crate, so that ids given by add_crate_root and shifted ids stand side by
\* side.
C31_Witness ==
    /\ last.op = "extend" /\ last.id > 0
    /\ DOMAIN arena["self"] = 0 .. MaxCrates - 1
    /\ Cardinality(Merged) >= 2

\* C32: once add_dep(from, name, to) fails with CyclicDependenciesError,
\* every later add_dep(from, name', to) on the same graph fails with it:
\* no step takes a pair that would be refused to one that would not be.  (The
\* graph given to extend is moved into the call; what is built afterwards is
\* another graph.)
C32_RejectionPermanent ==
    [][\A g \in GraphNames :
          \/ g = "other" /\ last'.op = "extend"
          \/ arena'[g] = arena[g]
          \/ \A from \in DOMAIN arena[g], to \in DOMAIN arena[g] :
                (\E name \in DepNames :
                    add_dep(arena[g], from, name, to).res = "Err")
                => (\A name \in DepNames :
                       add_dep(arena'[g], from, name, to).res = "Err")]_vars

\* add_dep has just refused an edge between two crates of the receiver, after
\* a graph was merged into it.
C32_Witness ==
    /\ last.op = "add_dep" /\ last.res = "Err" /\ last.g = "self"
    /\ last.from # last.to
    /\ last.from \in Own /\ last.to \in Own
    /\ Merged # {}

C35_ProcMacroEq ==
    last.op = "ProcMacro::eq" =>
        /\ last.out \in BOOLEAN
        /\ last.out <=> (/\ last.self.name = last.other.name
                         /\ last.self.expander = last.other.expander)
        /\ (/\ last.self.name = last.other.name
            /\ last.self.expander # last.other.expander) => ~last.out
        /\ (/\ last.self.name # last.other.name
            /\ last.self.expander = last.other.expander) => ~last.out

\* Two registrations of one name with different expanders have just been
\* compared.
C35_Witness ==
    /\ last.op = "ProcMacro::eq"
    /\ last.self.name = last.other.name
    /\ last.self.expander # last.other.expander
    /\ ~last.out

\* C36: for graphs g1, g2, g3 built by add_crate_root and add_dep, extending
\* g1 by g2 and then by g3 gives a graph equal to extending g1 by (g2
\* extended by g3), and the crates of g3 end up under the same ids in both.
C36_ExtendAssociative ==
    last.op = "extend both ways" =>
        /\ last.left[1].arena = last.right[1].arena
        /\ last.left[1].shift3 = last.right[1].shift3
        /\ \A id \in DOMAIN last.g[3] :
              LET n == id + last.left[1].shift3
              IN  /\ n \in DOMAIN last.left[1].arena
                  /\ SameButDeps(last.left[1].arena[n], last.g[3][id])
                  /\ SameButDeps(last.right[1].arena[n], last.g[3][id])

\* Three graphs have just been merged in both orders: none is empty, their
\* crates are not all alike, and g3 has an edge.
C36_Witness ==
    /\ last.op = "extend both ways"
    /\ \A i \in Parts : last.g[i] # CrateGraph_default
    /\ ~SameButDeps(last.g[1][0], last.g[2][0])
    /\ Succ(last.g[3], 0) # {}
    /\ last.left[1].shift3 >= 2

\* The search, run a step at a time, returns what dfs_find returns.
DfsAgrees ==
    (last.op = "dfs_find" /\ last.s[1].result # "running") =>
        LET r == dfs_find(last.g, last.s[1].target, last.s[1].from, {})
        IN  /\ last.s[1].result =
                  IF r.panic THEN "panic" ELSE IF r.found THEN "true"
                  ELSE "false"
            /\ last.s[1].result = "false" => last.s[1].visited = r.visited

====
